---- MODULE Spec2Model ----
(***************************************************************************)
(* The CORE customer-segmentation notebook                                 *)
(* (src/CORE_Customer_Segmentation_Project.ipynb) as a state machine.      *)
(*                                                                         *)
(* The notebook is a sequence of code cells run top to bottom; every cell  *)
(* is one action and pc names the last cell that ran.  The module-level    *)
(* names of the notebook (df, snapshot_date, rfm, the quartiles,           *)
(* top_spend_threshold, df_final) are the variables; csv is the input file *)
(* UrbanMart_Transactions.csv, which the notebook reads and never writes.  *)
(*                                                                         *)
(* Encoding of pandas values                                               *)
(*   - a cell of a table is <<>> (NaN / NaT, a missing value) or <<v>>;    *)
(*   - CustomerID and TransactionID are strings in the file ("CUST00001"); *)
(*     the model writes the number i for the i-th id in string order;      *)
(*   - dates are strings in the file and day numbers once parsed;          *)
(*   - money in df and rfm is held in units of 1/MoneyScale, so that the   *)
(*     column mean used for imputation is an exact integer; quantiles are  *)
(*     exact fractions [num, den] (den = 0 is NaN).  Floating-point        *)
(*     rounding of pandas is not modelled.                                 *)
(***************************************************************************)
EXTENDS Integers, Sequences, FiniteSets, TLC

VARIABLES csv, df, snapshot_date, rfm, r_quartiles, f_quartiles, m_quartiles,
          top_spend_threshold, df_final, pc, scores, segment

vars == <<csv, df, snapshot_date, rfm, r_quartiles, f_quartiles, m_quartiles,
          top_spend_threshold, df_final, pc, scores, segment>>

(***************************************************************************)
(* Bounds of the model.                                                    *)
(***************************************************************************)
\* rows of the input file
MaxRows == 3
\* customers of a population handed directly to the Scorer (SpecRFM)
MaxCustomers == 3

(***************************************************************************)
(* Missing values.                                                         *)
(***************************************************************************)
NaN == <<>>

IsNull(c) == c = NaN

Val(c) == c[1]

(***************************************************************************)
(* Generic helpers on sequences and sets.                                  *)
(***************************************************************************)
Range(s) == {s[i] : i \in DOMAIN s}

RECURSIVE SumSeq(_)
SumSeq(s) == IF s = <<>> THEN 0 ELSE Head(s) + SumSeq(Tail(s))

RECURSIVE SetToSortedSeq(_)
SetToSortedSeq(S) ==
    IF S = {} THEN <<>>
    ELSE LET m == CHOOSE x \in S : \A y \in S : x <= y
         IN <<m>> \o SetToSortedSeq(S \ {m})

RECURSIVE Gcd(_, _)
Gcd(a, b) == IF b = 0 THEN a ELSE Gcd(b, a % b)

RECURSIVE LcmUpTo(_)
LcmUpTo(n) == IF n <= 1 THEN 1 ELSE LET l == LcmUpTo(n - 1) IN (l * n) \div Gcd(l, n)

\* money unit: every mean of at most MaxRows integers is a multiple of 1/MoneyScale
MoneyScale == LcmUpTo(MaxRows)

(***************************************************************************)
(* The input file.  Columns as printed by df.info() (notebook lines 68-76):*)
(* eight object (string) columns and the int64/float64 TransactionValue.   *)
(***************************************************************************)
Columns == {"TransactionID", "CustomerID", "TransactionDate", "TransactionValue",
            "ProductCategory", "PaymentMethod", "CustomerGender",
            "CustomerAgeGroup", "Region"}

numeric_cols == {"TransactionValue"}

categorical_cols == Columns \ numeric_cols

\* Date strings of the file in string (lexicographic) order, with the day
\* number pd.to_datetime gives each; "unknown" does not parse.
DateTable == << [s |-> "2024-01-01", day |-> <<1>>],
                [s |-> "2024-04-01", day |-> <<92>>],
                [s |-> "unknown",    day |-> NaN] >>

\* pd.to_datetime(x, errors='coerce') of one cell
to_datetime(c) ==
    IF IsNull(c) THEN NaN
    ELSE IF \E i \in DOMAIN DateTable : DateTable[i].s = Val(c)
         THEN DateTable[CHOOSE i \in DOMAIN DateTable : DateTable[i].s = Val(c)].day
         ELSE NaN

\* Sort key of a cell value inside its column (pandas sorts the modes).
SortKey(col, v) ==
    IF col = "TransactionDate"
    THEN CHOOSE i \in DOMAIN DateTable : DateTable[i].s = v
    ELSE IF col \in {"TransactionID", "CustomerID", "TransactionValue"} THEN v
    ELSE 0


(***************************************************************************)
(* Input tables the model enumerates.  A row of the file is a date cell    *)
(* (missing, two dates 91 days apart, an unparseable string) together with *)
(* one of RowKinds: a customer, a value and the columns missing in the row.*)
(* TransactionID is the row's own number.                                  *)
(***************************************************************************)
DateCells == <<NaN, <<"2024-01-01">>, <<"2024-04-01">>, <<"unknown">>>>

RowKinds == << [cust |-> 1, value |-> 1, gap |-> {}],
               [cust |-> 1, value |-> 2, gap |-> {}],
               [cust |-> 2, value |-> 1, gap |-> {}],
               [cust |-> 2, value |-> 2, gap |-> {}],
               [cust |-> 1, value |-> 1, gap |-> {"TransactionID"}],
               [cust |-> 1, value |-> 1, gap |-> {"CustomerID"}],
               [cust |-> 1, value |-> 1, gap |-> {"TransactionValue"}],
               [cust |-> 1, value |-> 1, gap |-> {"ProductCategory", "PaymentMethod"}] >>

NumTemplates == Len(DateCells) * Len(RowKinds)

\* row number i of the file, made of template k
MakeRow(i, k) ==
    LET date == DateCells[((k - 1) \div Len(RowKinds)) + 1]
        kind == RowKinds[((k - 1) % Len(RowKinds)) + 1]
        Cell(col, v) == IF col \in kind.gap THEN NaN ELSE <<v>>
    IN [ idx              |-> i - 1,
         TransactionID    |-> Cell("TransactionID", i),
         CustomerID       |-> Cell("CustomerID", kind.cust),
         TransactionDate  |-> date,
         TransactionValue |-> Cell("TransactionValue", kind.value),
         ProductCategory  |-> Cell("ProductCategory", "Sport"),
         PaymentMethod    |-> Cell("PaymentMethod", "E-Wallet"),
         CustomerGender   |-> <<"Female">>,
         CustomerAgeGroup |-> <<"26-35">>,
         Region           |-> <<"Jakarta">> ]

NonDecreasing(ix) == \A i, j \in DOMAIN ix : i <= j => ix[i] <= ix[j]

\* The file made of the templates picked by ix: row i has index label i-1
\* (the RangeIndex of read_csv).
MakeCsv(ix) == [i \in DOMAIN ix |-> MakeRow(i, ix[i])]

\* dtype of a column after read_csv: a string column is object as soon as
\* one cell holds a string.
IsObject(table, col) == {i \in DOMAIN table : ~IsNull(table[i][col])} # {}

\* The string columns of the file have dtype object, as df.info() prints them.
WellTyped(table) ==
    IF table = <<>> THEN TRUE ELSE \A col \in categorical_cols : IsObject(table, col)

NoQuantiles == [q25 |-> [num |-> 0, den |-> 0], q50 |-> [num |-> 0, den |-> 0],
                q75 |-> [num |-> 0, den |-> 0]]

\* After cell 1586: df = pd.read_csv(...), on a file of at most MaxRows rows.
\* Every cell of the notebook treats the rows alike whatever their order, so
\* one order per multiset of rows is enumerated.
Init ==
    /\ \E n \in 0..MaxRows : \E ix \in [1..n -> 1..NumTemplates] :
          /\ NonDecreasing(ix)
          /\ WellTyped(MakeCsv(ix))
          /\ csv = MakeCsv(ix)
    /\ df = csv
    /\ snapshot_date = NaN
    /\ rfm = <<>>
    /\ r_quartiles = NoQuantiles
    /\ f_quartiles = NoQuantiles
    /\ m_quartiles = NoQuantiles
    /\ top_spend_threshold = [num |-> 0, den |-> 0]
    /\ df_final = <<>>
    /\ pc = "loaded"
    /\ scores = <<>>
    /\ segment = ""

(***************************************************************************)
(* Cell 1588: dropna(thresh), mean imputation, mode imputation.            *)
(***************************************************************************)
NonNullCount(row) == Cardinality({col \in Columns : ~IsNull(row[col])})

\* df.dropna(thresh=df.shape[1] - 2): keep rows with at least thresh non-null cells
dropna_thresh(table) ==
    SelectSeq(table, LAMBDA row : NonNullCount(row) >= Cardinality(Columns) - 2)

\* the non-null values of a column, in row order
ColumnValues(table, col) ==
    LET present == SelectSeq(table, LAMBDA row : ~IsNull(row[col]))
    IN [i \in DOMAIN present |-> Val(present[i][col])]

\* df[numeric_cols].fillna(df[numeric_cols].mean()); money goes to 1/MoneyScale units
fillna_mean(table, col) ==
    LET vs == ColumnValues(table, col)
        mean == IF vs = <<>> THEN NaN
                ELSE <<(SumSeq(vs) * MoneyScale) \div Len(vs)>>
    IN [i \in DOMAIN table |->
          [table[i] EXCEPT ![col] = IF IsNull(@) THEN mean ELSE <<Val(@) * MoneyScale>>]]

\* Series.mode(): the most frequent values, sorted; <<>> when all are missing
mode(table, col) ==
    LET vs == ColumnValues(table, col)
        Count(v) == Cardinality({i \in DOMAIN vs : vs[i] = v})
        top == {v \in Range(vs) : \A w \in Range(vs) : Count(w) <= Count(v)}
        keys == SetToSortedSeq({SortKey(col, v) : v \in top})
    IN [i \in DOMAIN keys |-> CHOOSE v \in top : SortKey(col, v) = keys[i]]

\* df[col] = df[col].fillna(df[col].mode()[0])
fillna_mode(table, col) ==
    [i \in DOMAIN table |->
        [table[i] EXCEPT ![col] = IF IsNull(@) THEN <<mode(table, col)[1]>> ELSE @]]

\* the object columns in the order of the file
ColumnOrder == <<"TransactionID", "CustomerID", "TransactionDate", "ProductCategory",
                 "PaymentMethod", "CustomerGender", "CustomerAgeGroup", "Region">>

\* the loop over categorical_cols; mode()[0] raises KeyError when the column
\* has no value at all, and the loop stops there
RECURSIVE FillCategorical(_, _)
FillCategorical(table, cols) ==
    IF cols = <<>> THEN [table |-> table, ok |-> TRUE]
    ELSE IF mode(table, Head(cols)) = <<>> THEN [table |-> table, ok |-> FALSE]
         ELSE FillCategorical(fillna_mode(table, Head(cols)), Tail(cols))

Clean ==
    /\ pc = "loaded"
    /\ LET kept == dropna_thresh(df)
           numeric == fillna_mean(kept, "TransactionValue")
           filled == FillCategorical(numeric, ColumnOrder)
       IN /\ df' = filled.table
          /\ pc' = IF filled.ok THEN "cleaned" ELSE "error"
    /\ UNCHANGED <<csv, snapshot_date, rfm, r_quartiles, f_quartiles, m_quartiles,
                   top_spend_threshold, df_final, scores, segment>>

(***************************************************************************)
(* Cell 1590: parse the dates, drop the rows that did not parse, take the  *)
(* snapshot date.                                                          *)
(***************************************************************************)
MaxOf(S) == CHOOSE x \in S : \A y \in S : y <= x

\* ParseDates taking the latest date itself as the snapshot date
ParseDates_no_day ==
    /\ pc = "cleaned"
    /\ LET parsed == [i \in DOMAIN df |->
                        [df[i] EXCEPT !.TransactionDate = to_datetime(@)]]
           kept == SelectSeq(parsed, LAMBDA row : ~IsNull(row.TransactionDate))
       IN /\ df' = kept
          /\ snapshot_date' =
                IF kept = <<>> THEN NaN
                ELSE <<MaxOf(Range(ColumnValues(kept, "TransactionDate")))>>
    /\ pc' = "parsed"
    /\ UNCHANGED <<csv, rfm, r_quartiles, f_quartiles, m_quartiles,
                   top_spend_threshold, df_final, scores, segment>>

ParseDates ==
    /\ pc = "cleaned"
    /\ LET parsed == [i \in DOMAIN df |->
                        [df[i] EXCEPT !.TransactionDate = to_datetime(@)]]
           kept == SelectSeq(parsed, LAMBDA row : ~IsNull(row.TransactionDate))
       IN /\ df' = kept
          /\ snapshot_date' =
                IF kept = <<>> THEN NaN
                ELSE <<MaxOf(Range(ColumnValues(kept, "TransactionDate"))) + 1>>
    /\ pc' = "parsed"
    /\ UNCHANGED <<csv, rfm, r_quartiles, f_quartiles, m_quartiles,
                   top_spend_threshold, df_final, scores, segment>>

(***************************************************************************)
(* Cells 1593 and 1595: one rfm row per CustomerID (groupby sorts the keys *)
(* and leaves out missing keys; count and sum skip missing cells).         *)
(***************************************************************************)
Group(table, key) == SelectSeq(table, LAMBDA row : row.CustomerID = <<key>>)

\* AggregateGroup with 'nunique' instead of 'count' for TransactionID
AggregateGroup_nunique(table, key, snapshot) ==
    LET g == Group(table, key)
        values == ColumnValues(g, "TransactionValue")
    IN [ CustomerID          |-> <<key>>,
         Recency             |-> Val(snapshot) - MaxOf(Range(ColumnValues(g, "TransactionDate"))),
         TransactionCount    |-> Cardinality(Range(ColumnValues(g, "TransactionID"))),
         Monetary            |-> SumSeq(values),
         AvgTransactionValue |-> IF values = <<>> THEN NaN
                                 ELSE <<[num |-> SumSeq(values), den |-> Len(values)]>> ]

AggregateGroup(table, key, snapshot) ==
    LET g == Group(table, key)
        values == ColumnValues(g, "TransactionValue")
    IN [ CustomerID          |-> <<key>>,
         Recency             |-> Val(snapshot) - MaxOf(Range(ColumnValues(g, "TransactionDate"))),
         TransactionCount    |-> Len(ColumnValues(g, "TransactionID")),
         Monetary            |-> SumSeq(values),
         AvgTransactionValue |-> IF values = <<>> THEN NaN
                                 ELSE <<[num |-> SumSeq(values), den |-> Len(values)]>> ]

groupby_agg(table, snapshot) ==
    LET keys == SetToSortedSeq(Range(ColumnValues(table, "CustomerID")))
    IN [i \in DOMAIN keys |-> AggregateGroup(table, keys[i], snapshot)]

\* On an empty table what groupby().agg() with a lambda does is left to the
\* pandas version: an empty result or an exception.
Aggregate ==
    /\ pc = "parsed"
    /\ \/ /\ rfm' = groupby_agg(df, snapshot_date)
          /\ pc' = "aggregated"
       \/ /\ df = <<>>
          /\ rfm' = rfm
          /\ pc' = "error"
    /\ UNCHANGED <<csv, df, snapshot_date, r_quartiles, f_quartiles, m_quartiles,
                   top_spend_threshold, df_final, scores, segment>>

(***************************************************************************)
(* Cell 1601: quartiles and scores.                                        *)
(***************************************************************************)
\* Series.quantile(num/den), linear interpolation between the order
\* statistics around position (n-1)*num/den; NaN (den = 0) on no values
quantile(values, num, den) ==
    LET s == SortSeq(values, LAMBDA a, b : a < b)
        pos == (Len(s) - 1) * num
        lo == (pos \div den) + 1
        frac == pos % den
    IN IF s = <<>> THEN [num |-> 0, den |-> 0]
       ELSE [ num |-> den * s[lo] + (IF frac = 0 THEN 0 ELSE frac * (s[lo + 1] - s[lo])),
              den |-> den ]

\* value <= q for an exact fraction q; False against NaN
LeQ(value, q) == q.den # 0 /\ value * q.den <= q.num

\* value >= q for an exact fraction q; False against NaN
GeQ(value, q) == q.den # 0 /\ value * q.den >= q.num

\* value < q and value = q for an exact fraction q; False against NaN
LtQ(value, q) == q.den # 0 /\ value * q.den < q.num

EqQ(value, q) == q.den # 0 /\ value * q.den = q.num

quartiles(values) ==
    [q25 |-> quantile(values, 1, 4), q50 |-> quantile(values, 2, 4),
     q75 |-> quantile(values, 3, 4)]

\* score_rfm on a 1..5 scale in its last band
score_rfm_five(value, quantiles, reverse) ==
    IF LeQ(value, quantiles.q25) THEN (IF reverse THEN 4 ELSE 1)
    ELSE IF LeQ(value, quantiles.q50) THEN (IF reverse THEN 3 ELSE 2)
    ELSE IF LeQ(value, quantiles.q75) THEN (IF reverse THEN 2 ELSE 3)
    ELSE (IF reverse THEN 0 ELSE 5)

\* score_rfm comparing with < instead of <=
score_rfm_strict(value, quantiles, reverse) ==
    IF LtQ(value, quantiles.q25) THEN (IF reverse THEN 4 ELSE 1)
    ELSE IF LtQ(value, quantiles.q50) THEN (IF reverse THEN 3 ELSE 2)
    ELSE IF LtQ(value, quantiles.q75) THEN (IF reverse THEN 2 ELSE 3)
    ELSE (IF reverse THEN 1 ELSE 4)

\* score_rfm with the two scales exchanged
score_rfm_swapped(value, quantiles, reverse) ==
    IF LeQ(value, quantiles.q25) THEN (IF reverse THEN 1 ELSE 4)
    ELSE IF LeQ(value, quantiles.q50) THEN (IF reverse THEN 2 ELSE 3)
    ELSE IF LeQ(value, quantiles.q75) THEN (IF reverse THEN 3 ELSE 2)
    ELSE (IF reverse THEN 4 ELSE 1)

score_rfm(value, quantiles, reverse) ==
    IF LeQ(value, quantiles.q25) THEN (IF reverse THEN 4 ELSE 1)
    ELSE IF LeQ(value, quantiles.q50) THEN (IF reverse THEN 3 ELSE 2)
    ELSE IF LeQ(value, quantiles.q75) THEN (IF reverse THEN 2 ELSE 3)
    ELSE (IF reverse THEN 1 ELSE 4)

Column(table, col) == [i \in DOMAIN table |-> table[i][col]]

Score ==
    /\ pc = "aggregated"
    /\ LET rq == quartiles(Column(rfm, "Recency"))
           fq == quartiles(Column(rfm, "TransactionCount"))
           mq == quartiles(Column(rfm, "Monetary"))
       IN /\ r_quartiles' = rq
          /\ f_quartiles' = fq
          /\ m_quartiles' = mq
          /\ rfm' = [i \in DOMAIN rfm |->
                       rfm[i] @@ [ R_Score |-> score_rfm(rfm[i].Recency, rq, TRUE),
                                   F_Score |-> score_rfm(rfm[i].TransactionCount, fq, FALSE),
                                   M_Score |-> score_rfm(rfm[i].Monetary, mq, FALSE) ]]
    /\ pc' = "scored"
    /\ UNCHANGED <<csv, df, snapshot_date, top_spend_threshold, df_final, scores, segment>>

(***************************************************************************)
(* Cell 1604: the CORE segment.                                            *)
(***************************************************************************)
\* classify_core with the Retain rule asking for r > 3
classify_core_strict_retain(r, f, m) ==
    IF r > 3 /\ f >= 3 /\ m >= 3 THEN "Retain"
    ELSE IF r >= 3 /\ (f = 2 \/ m = 2) THEN "Optimize"
    ELSE IF r = 2 /\ f <= 2 /\ m <= 2 THEN "Convert"
    ELSE "Exit"

\* classify_core with the Convert rule asking for r <= 2
classify_core_convert_low(r, f, m) ==
    IF r >= 3 /\ f >= 3 /\ m >= 3 THEN "Retain"
    ELSE IF r >= 3 /\ (f = 2 \/ m = 2) THEN "Optimize"
    ELSE IF r <= 2 /\ f <= 2 /\ m <= 2 THEN "Convert"
    ELSE "Exit"

classify_core(r, f, m) ==
    IF r >= 3 /\ f >= 3 /\ m >= 3 THEN "Retain"
    ELSE IF r >= 3 /\ (f = 2 \/ m = 2) THEN "Optimize"
    ELSE IF r = 2 /\ f <= 2 /\ m <= 2 THEN "Convert"
    ELSE "Exit"

\* On an empty rfm, DataFrame.apply(axis=1) gives back a DataFrame, and
\* whether assigning it to one column raises is left to the pandas version.
Classify ==
    /\ pc = "scored"
    /\ \/ /\ rfm' = [i \in DOMAIN rfm |->
                       rfm[i] @@ [CORE_Segment |->
                          classify_core(rfm[i].R_Score, rfm[i].F_Score, rfm[i].M_Score)]]
          /\ pc' = "classified"
       \/ /\ rfm = <<>>
          /\ rfm' = rfm
          /\ pc' = "error"
    /\ UNCHANGED <<csv, df, snapshot_date, r_quartiles, f_quartiles, m_quartiles,
                   top_spend_threshold, df_final, scores, segment>>

(***************************************************************************)
(* Cell 1607: Churn_Risk and Top_Spender.  Cell 1613: IsLoyalCustomer.     *)
(***************************************************************************)
ChurnDays == 90

LoyalCount == 5

\* Churn_Risk with >= instead of >
Churn_Risk_inclusive(x) == IF x >= ChurnDays THEN "Yes" ELSE "No"

Churn_Risk(x) == IF x > ChurnDays THEN "Yes" ELSE "No"

Top_Spender(x, threshold) == IF GeQ(x, threshold) THEN "Yes" ELSE "No"

IsLoyalCustomer(x) == IF x >= LoyalCount THEN "Yes" ELSE "No"

Flag ==
    /\ pc = "classified"
    /\ LET threshold == quantile(Column(rfm, "Monetary"), 9, 10)
       IN /\ top_spend_threshold' = threshold
          /\ rfm' = [i \in DOMAIN rfm |->
                       rfm[i] @@ [ Churn_Risk  |-> Churn_Risk(rfm[i].Recency),
                                   Top_Spender |-> Top_Spender(rfm[i].Monetary, threshold) ]]
    /\ pc' = "flagged"
    /\ UNCHANGED <<csv, df, snapshot_date, r_quartiles, f_quartiles, m_quartiles,
                   df_final, scores, segment>>

Loyal ==
    /\ pc = "flagged"
    /\ rfm' = [i \in DOMAIN rfm |->
                 rfm[i] @@ [IsLoyalCustomer |-> IsLoyalCustomer(rfm[i].TransactionCount)]]
    /\ pc' = "tagged"
    /\ UNCHANGED <<csv, df, snapshot_date, r_quartiles, f_quartiles, m_quartiles,
                   top_spend_threshold, df_final, scores, segment>>

(***************************************************************************)
(* Cell 1616: pd.merge(df, rfm, on='CustomerID', how='left').              *)
(***************************************************************************)
CustomerColumns == {"Recency", "TransactionCount", "Monetary", "AvgTransactionValue",
                    "R_Score", "F_Score", "M_Score", "CORE_Segment", "Churn_Risk",
                    "Top_Spender", "IsLoyalCustomer"}

\* a left row with no match keeps its place and gets missing right columns
Unmatched == [col \in CustomerColumns |-> NaN]

\* a matched pair: the left row's columns and the right row's other columns as cells
Joined(left, right) ==
    left @@ [col \in CustomerColumns |->
               IF col = "AvgTransactionValue" THEN right[col] ELSE <<right[col]>>]

\* pd.merge with its two tables exchanged: pd.merge(rfm, df, how='left')
RECURSIVE merge_left_swapped(_, _)
merge_left_swapped(left, right) ==
    IF right = <<>> THEN <<>>
    ELSE LET r == Head(right)
             matches == SelectSeq(left, LAMBDA l : l.CustomerID = r.CustomerID)
             alone == [col \in (Columns \cup {"idx"}) \ {"CustomerID"} |-> NaN]
                         @@ [CustomerID |-> r.CustomerID]
             out == IF matches = <<>> THEN <<Joined(alone, r)>>
                    ELSE [i \in DOMAIN matches |-> Joined(matches[i], r)]
         IN out \o merge_left_swapped(left, Tail(right))

RECURSIVE merge_left(_, _)
merge_left(left, right) ==
    IF left = <<>> THEN <<>>
    ELSE LET row == Head(left)
             matches == SelectSeq(right, LAMBDA r : r.CustomerID = row.CustomerID)
             out == IF matches = <<>> THEN <<row @@ Unmatched>>
                    ELSE [i \in DOMAIN matches |-> Joined(row, matches[i])]
         IN out \o merge_left(Tail(left), right)

Merge ==
    /\ pc = "tagged"
    /\ df_final' = merge_left(df, rfm)
    /\ pc' = "merged"
    /\ UNCHANGED <<csv, df, snapshot_date, rfm, r_quartiles, f_quartiles, m_quartiles,
                   top_spend_threshold, scores, segment>>

Next ==
    \/ Clean
    \/ ParseDates
    \/ Aggregate
    \/ Score
    \/ Classify
    \/ Flag
    \/ Loyal
    \/ Merge

Spec == Init /\ [][Next]_vars

(***************************************************************************)
(* SpecRFM: the Scorer, Classifier and Flagger (cells 1601 to 1613) on a   *)
(* CustomerRFM table given directly.  These cells read rfm only, so the    *)
(* transaction table is left out.  A population is any table the           *)
(* Aggregator can produce: Recency >= 1 with the customer of the latest    *)
(* transaction at Recency 1, TransactionCount >= 1.  Every cell treats the *)
(* customers alike whatever their order, so one order per multiset of      *)
(* customers is enumerated.                                                *)
(***************************************************************************)
Recencies == <<1, ChurnDays, ChurnDays + 5>>

Counts == <<1, 2, LoyalCount - 1, LoyalCount>>

Monetaries == <<1, 2, 3>>

NumCustomerTemplates == Len(Recencies) * Len(Counts) * Len(Monetaries)

\* customer number i, made of template k
MakeCustomer(i, k) ==
    LET recency == Recencies[((k - 1) \div (Len(Counts) * Len(Monetaries))) + 1]
        count == Counts[(((k - 1) \div Len(Monetaries)) % Len(Counts)) + 1]
        monetary == Monetaries[((k - 1) % Len(Monetaries)) + 1]
    IN [ CustomerID          |-> <<i>>,
         Recency             |-> recency,
         TransactionCount    |-> count,
         Monetary            |-> monetary,
         AvgTransactionValue |-> <<[num |-> monetary, den |-> count]>> ]

Population(ix) == [i \in DOMAIN ix |-> MakeCustomer(i, ix[i])]

Realizable(table) ==
    IF table = <<>> THEN TRUE ELSE 1 \in {table[i].Recency : i \in DOMAIN table}

InitRFM ==
    /\ csv = <<>>
    /\ df = <<>>
    /\ snapshot_date = NaN
    /\ \E n \in 0..MaxCustomers : \E ix \in [1..n -> 1..NumCustomerTemplates] :
          /\ NonDecreasing(ix)
          /\ Realizable(Population(ix))
          /\ rfm = Population(ix)
    /\ r_quartiles = NoQuantiles
    /\ f_quartiles = NoQuantiles
    /\ m_quartiles = NoQuantiles
    /\ top_spend_threshold = [num |-> 0, den |-> 0]
    /\ df_final = <<>>
    /\ pc = "aggregated"
    /\ scores = <<>>
    /\ segment = ""

NextRFM ==
    \/ Score
    \/ Classify
    \/ Flag
    \/ Loyal

SpecRFM == InitRFM /\ [][NextRFM]_vars

(***************************************************************************)
(* SpecCore: classify_core called on one triple of scores.                 *)
(***************************************************************************)
ScoreValues == 1..4

Segments == {"Convert", "Optimize", "Retain", "Exit"}

InitCore ==
    /\ csv = <<>>
    /\ df = <<>>
    /\ snapshot_date = NaN
    /\ rfm = <<>>
    /\ r_quartiles = NoQuantiles
    /\ f_quartiles = NoQuantiles
    /\ m_quartiles = NoQuantiles
    /\ top_spend_threshold = [num |-> 0, den |-> 0]
    /\ df_final = <<>>
    /\ pc = "call"
    /\ scores \in ScoreValues \X ScoreValues \X ScoreValues
    /\ segment = ""

CallClassify ==
    /\ pc = "call"
    /\ segment' = classify_core(scores[1], scores[2], scores[3])
    /\ pc' = "returned"
    /\ UNCHANGED <<csv, df, snapshot_date, rfm, r_quartiles, f_quartiles, m_quartiles,
                   top_spend_threshold, df_final, scores>>

NextCore == CallClassify

SpecCore == InitCore /\ [][NextCore]_vars

(***************************************************************************)
(* The claims.                                                             *)
(***************************************************************************)
AfterScore == {"scored", "classified", "flagged", "tagged", "merged"}

AfterClassify == {"classified", "flagged", "tagged", "merged"}

AfterFlag == {"flagged", "tagged", "merged"}

AfterParse == {"parsed", "aggregated"} \cup AfterScore

AfterAggregate == {"aggregated"} \cup AfterScore

\* C1: classify_core returns, for every triple of scores in {1,2,3,4}^3, one
\* label of {Retain, Optimize, Convert, Exit}, the one of the first rule that
\* matches in the order Retain, Optimize, Convert, Exit; in particular every
\* triple with R_Score = 1 is Exit.
C1_FirstMatchingRule ==
    pc = "returned" =>
        LET r == scores[1]
            f == scores[2]
            m == scores[3]
            retain == r >= 3 /\ f >= 3 /\ m >= 3
            optimize == r >= 3 /\ (f = 2 \/ m = 2)
            convert == r = 2 /\ f <= 2 /\ m <= 2
        IN /\ segment \in Segments
           /\ retain => segment = "Retain"
           /\ (~retain /\ optimize) => segment = "Optimize"
           /\ (~retain /\ ~optimize /\ convert) => segment = "Convert"
           /\ (~retain /\ ~optimize /\ ~convert) => segment = "Exit"
           /\ r = 1 => segment = "Exit"

C1_Witness == pc = "returned" /\ scores = <<1, 4, 4>> /\ segment = "Exit"

\* C2: in every population every customer's R_Score, F_Score and M_Score is
\* one of 1, 2, 3, 4.
C2_ScoresInRange ==
    pc \in AfterScore =>
        \A i \in DOMAIN rfm :
            /\ rfm[i].R_Score \in {1, 2, 3, 4}
            /\ rfm[i].F_Score \in {1, 2, 3, 4}
            /\ rfm[i].M_Score \in {1, 2, 3, 4}

C2_Witness ==
    /\ pc = "scored"
    /\ \E i, j \in DOMAIN rfm :
          /\ rfm[i].R_Score = 1 /\ rfm[j].R_Score = 4
          /\ rfm[i].M_Score = 4 /\ rfm[j].F_Score = 4

\* C3: the number of customers with Top_Spender = 'Yes' is within rounding of
\* a tenth of the population (between its floor and its ceiling), also when
\* customers share a Monetary value.
C3_TopSpenderIsATenth ==
    pc \in AfterFlag =>
        LET n == Len(rfm)
            yes == Cardinality({i \in DOMAIN rfm : rfm[i].Top_Spender = "Yes"})
        IN n \div 10 <= yes /\ yes <= (n + 9) \div 10

\* C4: a row of the file whose TransactionDate is missing or does not parse
\* is not in the cleaned table.
C4_BadDateRowDropped ==
    pc \in AfterParse =>
        \A i \in DOMAIN csv :
            IsNull(to_datetime(csv[i].TransactionDate)) =>
                \A j \in DOMAIN df : df[j].idx # csv[i].idx

TieBand(value, q, band) ==
    /\ EqQ(value, q.q25) => band = 1
    /\ (EqQ(value, q.q50) /\ ~LeQ(value, q.q25)) => band = 2
    /\ (EqQ(value, q.q75) /\ ~LeQ(value, q.q50)) => band = 3
    /\ (EqQ(value, q.q50) \/ EqQ(value, q.q75)) => band <= 3
    /\ EqQ(value, q.q50) => band <= 2

C6_Scenario(i) ==
    /\ rfm[i].Recency = 95
    /\ rfm[i].TransactionCount = 2
    /\ EqQ(rfm[i].Monetary, quantile(Column(rfm, "Monetary"), 1, 5))

C7_CountsRoundTrip ==
    pc \in AfterAggregate =>
        /\ SumSeq(Column(rfm, "TransactionCount")) = Len(df)
        /\ Range(Column(rfm, "CustomerID")) = Range(Column(df, "CustomerID"))
        /\ Cardinality(Range(Column(rfm, "CustomerID"))) = Len(rfm)

C7_Witness ==
    /\ pc = "aggregated"
    /\ Len(df) = 3
    /\ Len(rfm) = 2
    /\ \E i \in DOMAIN csv : IsNull(csv[i].TransactionID)

AllSameMonetary == \A i, j \in DOMAIN rfm : rfm[i].Monetary = rfm[j].Monetary

ClaimedColumns == CustomerColumns \ {"AvgTransactionValue"}

\* C10: the merged table has exactly the rows of the cleaned table, once each
\* and in place; every row has Recency, TransactionCount, Monetary, the
\* scores, the segment and the flags, none missing; rows of one customer
\* carry the same customer-level values.
C10_MergeKeepsRows ==
    pc = "merged" =>
        /\ Len(df_final) = Len(df)
        /\ \A i \in DOMAIN df_final :
              /\ \A col \in Columns \cup {"idx"} : df_final[i][col] = df[i][col]
              /\ \A col \in ClaimedColumns : ~IsNull(df_final[i][col])
        /\ \A i, j \in DOMAIN df_final :
              df_final[i].CustomerID = df_final[j].CustomerID =>
                  \A col \in CustomerColumns : df_final[i][col] = df_final[j][col]

C10_Witness ==
    /\ pc = "merged"
    /\ Len(df_final) = 3
    /\ Len(csv) = 3
    /\ df_final[1].CustomerID = df_final[2].CustomerID
    /\ df_final[1].CustomerID # df_final[3].CustomerID
    /\ df_final[1].TransactionCount = <<2>>

\* the latest transaction date of the cleaned table, and of one customer
LatestDate(table) == MaxOf(Range(ColumnValues(table, "TransactionDate")))

\* C11: on a non-empty cleaned table the snapshot date is the latest
\* transaction date of the whole table plus one day; every customer's Recency
\* is the whole number of days from its own latest transaction to the snapshot
\* date and is at least 1, its TransactionCount is a positive integer, and a
\* customer owning a transaction of the latest date has Recency 1.
C11_RecencyFromSnapshot ==
    (pc \in AfterAggregate /\ df # <<>>) =>
        /\ snapshot_date = <<LatestDate(df) + 1>>
        /\ rfm # <<>>
        /\ \A i \in DOMAIN rfm :
              LET own == SelectSeq(df, LAMBDA row : row.CustomerID = rfm[i].CustomerID)
              IN /\ rfm[i].Recency \in Nat
                 /\ rfm[i].Recency >= 1
                 /\ rfm[i].TransactionCount \in Nat
                 /\ rfm[i].TransactionCount >= 1
                 /\ rfm[i].Recency = LatestDate(df) + 1 - LatestDate(own)
                 /\ LatestDate(own) = LatestDate(df) => rfm[i].Recency = 1
        /\ \E i \in DOMAIN rfm : rfm[i].Recency = 1

C11_Witness ==
    /\ pc = "aggregated"
    /\ Len(df) = 3
    /\ \E i, j \in DOMAIN rfm :
          /\ rfm[i].Recency = 1 /\ rfm[i].TransactionCount = 2
          /\ rfm[j].Recency = 92 /\ rfm[j].TransactionCount = 1

\* C12 as claimed, after the notebook's text on the scoring: a Frequency or
\* Monetary value at or above the 75th percentile gets score 4 and one at or
\* below the 25th percentile gets score 1; a Recency at or below the 25th
\* percentile gets score 4 and one above the 75th percentile gets score 1.
C12_DocumentedScores ==
    pc \in AfterScore =>
        \A i \in DOMAIN rfm :
            /\ GeQ(rfm[i].TransactionCount, f_quartiles.q75) => rfm[i].F_Score = 4
            /\ LeQ(rfm[i].TransactionCount, f_quartiles.q25) => rfm[i].F_Score = 1
            /\ GeQ(rfm[i].Monetary, m_quartiles.q75) => rfm[i].M_Score = 4
            /\ LeQ(rfm[i].Monetary, m_quartiles.q25) => rfm[i].M_Score = 1
            /\ LeQ(rfm[i].Recency, r_quartiles.q25) => rfm[i].R_Score = 4
            /\ ~LeQ(rfm[i].Recency, r_quartiles.q75) => rfm[i].R_Score = 1

====
